---- MODULE Spec2Model ----
(***************************************************************************)
(* crown: core/filesystem/filesystem_disk.cpp                              *)
(*                                                                         *)
(* FileDisk (one native resource per handle object, two compile-time       *)
(* backends: stdio FILE* on POSIX, HANDLE on Windows) and FilesystemDisk   *)
(* (prefix + path resolution + delegation to the os:: primitives).         *)
(*                                                                         *)
(* Widths are scaled: u32 / DWORD is a WordBits-bit unsigned integer, the  *)
(* Windows LONG a WordBits-bit signed one, the POSIX long (LP64) twice as  *)
(* wide.  All arithmetic of the code is kept in those widths.              *)
(***************************************************************************)
EXTENDS Integers, Sequences, FiniteSets, TLC

\* ------------------------------------------------------------------ bounds
WordBits == 3
MaxHandles == 2
MaxNative == 2
MaxWrite == 2
\* The most bytes a caller writes to one file before reading it back.
MaxTrip == 4
\* The callers that use one FilesystemDisk at the same time.
MaxActors == 2
\* The capacity of a stdio stream's buffer.
BufCap == 2

\* ------------------------------------------------------------ integer types
U32Mod == 2^WordBits
U32Max == U32Mod - 1
U32 == 0..U32Max
\* Windows LONG: the signed integer of the same width as DWORD.
LONG_MAX32 == 2^(WordBits - 1) - 1
\* POSIX long on LP64: twice the width of u32.
LONG_MAX == 2^(2 * WordBits - 1) - 1
\* (LONG)x for a DWORD x: two's complement reinterpretation.
ToLONG(x) == IF x > LONG_MAX32 THEN x - U32Mod ELSE x
\* (u32)x for a non-negative long x.
ToU32(x) == x % U32Mod
\* winbase.h: INVALID_SET_FILE_POINTER and INVALID_FILE_SIZE are (DWORD)-1.
INVALID_SET_FILE_POINTER == U32Max
INVALID_FILE_SIZE == U32Max
\* The largest file the volume holds; sizes stay representable in a u32.
DiskCap == U32Max - 1

Min(a, b) == IF a < b THEN a ELSE b
Max(a, b) == IF a > b THEN a ELSE b

\* ------------------------------------------------------------------- paths
\* A path is a sequence of characters.
PATH_SEPARATOR(be) == IF be = "posix" THEN "/" ELSE "\\"
Alpha == {"a", "p", "C"}

\* path::is_absolute
is_absolute(be, path) ==
    IF be = "posix"
    THEN Len(path) > 0 /\ path[1] = "/"
    ELSE Len(path) > 2 /\ path[1] \in Alpha /\ path[2] = ":" /\ path[3] = "\\"

\* path::join: path_a, the separator, path_b
join(be, path_a, path_b) == path_a \o <<PATH_SEPARATOR(be)>> \o path_b

\* FilesystemDisk::get_absolute_path
get_absolute_path_noabs(be, prefix, path) == join(be, prefix, path)

get_absolute_path(be, prefix, path) ==
    IF is_absolute(be, path) THEN path ELSE join(be, prefix, path)

\* Caller-supplied paths: one relative, one absolute in the platform's syntax.
RelPath == <<"a">>
AbsPath(be) == IF be = "posix" THEN <<"/", "a">> ELSE <<"C", ":", "\\", "a">>
PathInputs(be) == {RelPath, AbsPath(be)}
Prefixes == {<< >>, <<"p">>}
\* Every path the OS can be handed.
DiskPaths(be) == {get_absolute_path(be, pre, p) : pre \in Prefixes, p \in PathInputs(be)}

\* ------------------------------------------------------------------- state
VARIABLES
    backend,    \* "posix" | "windows": the platform the file is compiled for
    fatal,      \* "none" | "assert" (CE_ASSERT / CE_ENSURE aborted) | "ub"
    _prefix,    \* FilesystemDisk::_prefix
    disk,       \* the OS namespace: resolved path -> [kind, ino]
    inodes,     \* file contents: ino -> sequence of bytes
    native,     \* the native resources (FILE* / HANDLE): id -> stream or free slot
    file,       \* FileDisk objects: handle -> [st, _file, _eof, rd]
    last,       \* the operation just performed, with what it saw and returned
    written,    \* history: the bytes a caller wrote to the file it last opened for writing
    pc          \* where each caller inside create_directory stands: actor -> [st, path]

vars == <<backend, fatal, _prefix, disk, inodes, native, file, last, written, pc>>

Backends == {"posix", "windows"}
Actors == 1..MaxActors
\* A caller outside create_directory.
Idle == [st |-> "idle", path |-> << >>]
Handles == 1..MaxHandles
\* FileOpenMode::Enum
FileOpenMode == {"READ", "WRITE"}
\* NULL on POSIX, INVALID_HANDLE_VALUE on Windows.
NoFile == 0

InoIds == 1..(Cardinality(DiskPaths(backend)) + MaxNative)
\* The file that exists before the program starts, one byte longer than the
\* largest offset a Windows LONG holds.
InitLen == LONG_MAX32 + 2
InitData == [i \in 1..InitLen |-> i]
\* The caller's buffer for write().
WriteBuffer == [i \in 1..MaxWrite |-> 100 + i]
\* The same file and buffer holding zero bytes only.
Blank(n) == [i \in 1..n |-> 0]

NoNode == [kind |-> "none", ino |-> 0]

\* ---------------------------------------------------------- the OS volume
Take(s, n) == SubSeq(s, 1, Min(n, Len(s)))

\* How many of n bytes fit when written at offset at.
Fit(at, n) == IF at >= DiskCap THEN 0 ELSE Min(n, DiskCap - at)

\* data with bytes written at offset at (a gap is zero-filled).
Overwrite(data, at, bytes) ==
    IF bytes = << >> THEN data
    ELSE [i \in 1..Max(Len(data), at + Len(bytes)) |->
            IF i > at /\ i <= at + Len(bytes) THEN bytes[i - at]
            ELSE IF i <= Len(data) THEN data[i] ELSE 0]

NativeIds == 1..MaxNative
FreeNative == [ino |-> 0, mode |-> "READ", pos |-> 0, eof |-> FALSE, buf |-> << >>,
               open |-> FALSE, own |-> 0, facade |-> FALSE]
Unreleased(nat) == {r \in NativeIds : nat[r].open}
FreeSlot == [st |-> "free", _file |-> NoFile, _eof |-> FALSE, rd |-> "none"]
\* FileDisk::FileDisk(): the constructor's initial values.
Constructed == [st |-> "live", _file |-> NoFile, _eof |-> FALSE, rd |-> "none"]

\* An inode is in use while a path names it or an unreleased resource holds it.
InoUsed(d, nat, i) ==
    \/ \E p \in DOMAIN d : d[p].kind = "file" /\ d[p].ino = i
    \/ \E r \in Unreleased(nat) : nat[r].ino = i

FreeIno(d, nat) == CHOOSE i \in InoIds : ~InoUsed(d, nat, i) /\
                      \A j \in InoIds : ~InoUsed(d, nat, j) => i <= j

\* The contents of an inode nothing refers to are gone.
Reclaim(d, nat, ino) ==
    [i \in InoIds |-> IF InoUsed(d, nat, i) THEN ino[i] ELSE << >>]

\* ------------------------------------------------- FileDisk: the observers
\* FileDisk::is_open
is_open(h) == file[h]._file /= NoFile

\* The handle's native resource is one the OS still knows.
Valid(h) == is_open(h) /\ native[file[h]._file].open

Res(h) == native[file[h]._file]

\* stdio: the bytes fwrite has buffered belong at the end of the logical
\* position; Pending is the file as a flush would leave it.
BufAt(s) == s.pos - Len(s.buf)
PendingIn(ino, s) == Overwrite(ino[s.ino], BufAt(s), Take(s.buf, Fit(BufAt(s), Len(s.buf))))
Pending(s) == PendingIn(inodes, s)
FlushOk(s) == Fit(BufAt(s), Len(s.buf)) = Len(s.buf)

\* What position(), size() and end_of_file() return on a valid handle.
PosVal(h) == IF backend = "posix" THEN ToU32(Res(h).pos) ELSE Res(h).pos
SizeVal(h) ==
    IF backend = "posix" THEN ToU32(Len(Pending(Res(h)))) ELSE Len(inodes[Res(h).ino])
EofVal(h) == IF backend = "posix" THEN Res(h).eof ELSE file[h]._eof

\* ------------------------------------------------------- the history record
Call(fn, path) == [fn |-> fn, path |-> path]

Op(name, h, path, mode, k, ret, calls) ==
    [op |-> name, h |-> h, path |-> path, mode |-> mode, k |-> k, ret |-> ret,
     calls |-> calls, data |-> << >>, released |-> 0, dbl |-> FALSE, rewound |-> FALSE]

NoOp == [op |-> "init", h |-> 0, path |-> << >>, mode |-> "READ", k |-> 0, ret |-> 0,
         calls |-> << >>, data |-> << >>, released |-> 0, dbl |-> FALSE, rewound |-> FALSE]

\* The history of a caller that opens a path for writing through the facade,
\* writes, closes and opens the path again for reading: was the path new
\* (fresh), the writing handle (h, 0 once closed), the handle reading the
\* path afterwards (reader) and the bytes written, in order.
Untracked ==
    [on |-> FALSE, fresh |-> FALSE, path |-> << >>, h |-> 0, reader |-> 0, bytes |-> << >>]
Tracked == [Untracked EXCEPT !.on = TRUE]

Track(rec, fat) ==
    IF ~written.on THEN written
    ELSE IF fat /= "none" THEN Tracked
    ELSE CASE rec.op = "Filesystem.open" /\ rec.mode = "WRITE" ->
                [Tracked EXCEPT !.fresh = disk[rec.calls[1].path].kind = "none",
                                !.path = rec.calls[1].path, !.h = rec.h]
           [] rec.op = "Filesystem.open" /\ rec.mode = "READ" ->
                IF written.h = 0 /\ rec.calls[1].path = written.path
                THEN [written EXCEPT !.reader = rec.h] ELSE written
           [] rec.op = "write" ->
                IF rec.h = written.h THEN [written EXCEPT !.bytes = @ \o rec.data]
                ELSE written
           [] rec.op = "Filesystem.close" ->
                IF rec.h = written.h THEN [written EXCEPT !.h = 0]
                ELSE IF rec.h = written.reader THEN [written EXCEPT !.reader = 0]
                ELSE written
           [] rec.op \in {"open", "close", "delete_file"} -> Tracked
           [] OTHER -> written

\* Every variable of the next state; the platform is fixed at compile time.
\* An abort ends the process: its objects are gone and the OS takes back its
\* resources (what stdio had buffered is lost); the volume stays.
Commit(d, ino, nat, f, fat, rec) ==
    LET n == IF fat = "none" THEN nat ELSE [r \in NativeIds |-> FreeNative]
    IN  /\ disk' = d
        /\ native' = n
        /\ inodes' = Reclaim(d, n, ino)
        /\ file' = IF fat = "none" THEN f ELSE [h \in Handles |-> FreeSlot]
        /\ fatal' = fat
        /\ last' = rec
        /\ written' = Track(rec, fat)
        /\ UNCHANGED <<backend, _prefix, pc>>

Running == fatal = "none"
Live(h) == file[h].st = "live"

\* ------------------------------------------------------ the native open call
\* fopen(path, "rb" | "wb") and CreateFile(path, GENERIC_READ | GENERIC_WRITE,
\* 0, NULL, OPEN_ALWAYS, ...): whether it succeeds and what it does to the file.
NativeOpen(path, mode) ==
    LET node == disk[path]
        shared == node.kind = "file" /\ \E r \in Unreleased(native) : native[r].ino = node.ino
    IN  IF backend = "posix"
        THEN IF mode = "READ"
             THEN [ok |-> node.kind = "file", create |-> FALSE, trunc |-> FALSE]
             ELSE [ok |-> node.kind /= "dir", create |-> node.kind = "none",
                   trunc |-> node.kind = "file"]
        ELSE [ok |-> node.kind /= "dir" /\ ~shared, create |-> node.kind = "none",
              trunc |-> FALSE]

NewNative(ino, mode, h, facade) ==
    [ino |-> ino, mode |-> mode, pos |-> 0, eof |-> FALSE, buf |-> << >>,
     open |-> TRUE, own |-> h, facade |-> facade]

\* The OS hands out the lowest id not in use.
CanAcquire == \E r \in NativeIds : ~native[r].open
NewId == CHOOSE r \in NativeIds : ~native[r].open /\
            \A q \in NativeIds : ~native[q].open => r <= q

\* Overwriting _file drops the only reference to the resource it named: the
\* resource stays unreleased and keeps its file, and nothing can move its
\* cursor any more.
Orphan(f, h) ==
    IF f[h]._file /= NoFile /\ native[f[h]._file].open
    THEN [native EXCEPT ![f[h]._file].pos = 0, ![f[h]._file].eof = FALSE,
                        ![f[h]._file].buf = << >>]
    ELSE native

\* FileDisk::open on the objects f: the state it leaves, as a record.
OpenEffect(f, h, path, mode, facade) ==
    LET o == NativeOpen(path, mode)
        ino == IF o.create THEN FreeIno(disk, native) ELSE disk[path].ino
    IN  IF o.ok
        THEN [d |-> IF o.create THEN [disk EXCEPT ![path] = [kind |-> "file", ino |-> ino]]
                    ELSE disk,
              ino |-> IF o.create \/ o.trunc THEN [inodes EXCEPT ![ino] = << >>] ELSE inodes,
              nat |-> [Orphan(f, h) EXCEPT ![NewId] = NewNative(ino, mode, h, facade)],
              f |-> [f EXCEPT ![h]._file = NewId],
              fat |-> "none"]
        ELSE [d |-> disk, ino |-> inodes, nat |-> Orphan(f, h),
              f |-> [f EXCEPT ![h]._file = NoFile],
              fat |-> "assert"]

FileDisk_open(h, path, mode) ==
    /\ Running /\ Live(h)
    /\ CanAcquire
    /\ LET e == OpenEffect(file, h, path, mode, FALSE)
       IN  Commit(e.d, e.ino, e.nat, e.f, e.fat,
                  Op("open", h, path, mode, 0, 0,
                     <<Call(IF backend = "posix" THEN "fopen" ELSE "CreateFile", path)>>))

\* FileDisk::close that releases the resource and keeps _file.
CloseEffect_keeps_file(f, nat, h) ==
    IF f[h]._file /= NoFile
    THEN LET r == f[h]._file
             s == nat[r]
         IN  [nat |-> [nat EXCEPT ![r] = FreeNative],
              ino |-> IF backend = "posix" /\ s.open
                      THEN [inodes EXCEPT ![s.ino] = Pending(s)] ELSE inodes,
              f |-> f,
              released |-> 1, dbl |-> ~s.open]
    ELSE [nat |-> nat, ino |-> inodes, f |-> f, released |-> 0, dbl |-> FALSE]

\* FileDisk::close that drops what fwrite buffered instead of flushing it.
CloseEffect_no_flush(f, nat, h) ==
    IF f[h]._file /= NoFile
    THEN [nat |-> [nat EXCEPT ![f[h]._file] = FreeNative],
          ino |-> inodes,
          f |-> [f EXCEPT ![h]._file = NoFile],
          released |-> 1, dbl |-> ~nat[f[h]._file].open]
    ELSE [nat |-> nat, ino |-> inodes, f |-> f, released |-> 0, dbl |-> FALSE]

\* FileDisk::close on the objects f: the natives, contents and objects after
\* it, the number of fclose / CloseHandle calls made, and whether one was made
\* on a resource already released (undefined behaviour).
CloseEffect(f, nat, h) ==
    IF f[h]._file /= NoFile
    THEN LET r == f[h]._file
             s == nat[r]
         IN  [nat |-> [nat EXCEPT ![r] = FreeNative],
              ino |-> IF backend = "posix" /\ s.open
                      THEN [inodes EXCEPT ![s.ino] = Pending(s)] ELSE inodes,
              f |-> [f EXCEPT ![h]._file = NoFile],
              released |-> 1, dbl |-> ~s.open]
    ELSE [nat |-> nat, ino |-> inodes, f |-> f, released |-> 0, dbl |-> FALSE]

FileDisk_close(h) ==
    /\ Running /\ Live(h)
    /\ LET e == CloseEffect(file, native, h)
       IN  Commit(disk, e.ino, e.nat, e.f, IF e.dbl THEN "ub" ELSE "none",
                  [Op("close", h, << >>, "READ", 0, 0,
                      IF e.released = 0 THEN << >>
                      ELSE <<Call(IF backend = "posix" THEN "fclose" ELSE "CloseHandle", << >>)>>)
                     EXCEPT !.released = e.released, !.dbl = e.dbl])

\* ------------------------------------------- FileDisk: queries and seeking
\* The outcome of a handle operation: contents, natives, objects, fatal state,
\* return value and the native calls issued.
Out(ino, nat, f, fat, ret, calls) ==
    [ino |-> ino, nat |-> nat, f |-> f, fat |-> fat, ret |-> ret, calls |-> calls]
Same(fat, ret, calls) == Out(inodes, native, file, fat, ret, calls)
SetRes(h, s) == [native EXCEPT ![file[h]._file] = s]
CE_ASSERT(cond) == IF cond THEN "none" ELSE "assert"

\* A native call on NULL (stdio: undefined) or on a FILE* / HANDLE that was
\* already released (undefined on both platforms).
Undefined(fn) == Same("ub", 0, <<Call(fn, << >>)>>)
Unbound(h) == ~is_open(h)

\* fseek(_file, off, whence) to the absolute offset to: flushes what fwrite
\* buffered, moves, clears the end-of-file indicator; -1 if either step fails.
fseek_keeps_eof(s, to) ==
    LET ok == FlushOk(s) /\ to >= 0 /\ to <= LONG_MAX
    IN  [ok |-> ok,
         s |-> IF ok THEN [s EXCEPT !.pos = to, !.buf = << >>]
               ELSE [s EXCEPT !.buf = << >>],
         data |-> Pending(s)]

fseek(s, to) ==
    LET ok == FlushOk(s) /\ to >= 0 /\ to <= LONG_MAX
    IN  [ok |-> ok,
         s |-> IF ok THEN [s EXCEPT !.pos = to, !.eof = FALSE, !.buf = << >>]
               ELSE [s EXCEPT !.buf = << >>],
         data |-> Pending(s)]

\* SetFilePointer(_file, dist, NULL, method) from the base offset: the new
\* pointer, or INVALID_SET_FILE_POINTER when it is negative or needs more
\* than a DWORD.
SetFilePointer(s, base, dist) ==
    LET to == base + dist
        ok == to >= 0 /\ to <= U32Max
    IN  [ret |-> IF ok THEN to ELSE INVALID_SET_FILE_POINTER,
         s |-> IF ok THEN [s EXCEPT !.pos = to] ELSE s]

\* FileDisk::size that leaves the cursor where fseek(SEEK_END) put it.
size_effect_no_restore(h) ==
    IF backend = "posix"
    THEN IF ~Valid(h) THEN Undefined("ftell")
         ELSE LET s == Res(h)
                  e == fseek(s, Len(Pending(s)))
              IN  Out([inodes EXCEPT ![s.ino] = e.data], SetRes(h, e.s), file,
                      CE_ASSERT(e.ok), ToU32(e.s.pos),
                      <<Call("ftell", << >>), Call("fseek", << >>),
                        Call("ftell", << >>), Call("fseek", << >>)>>)
    ELSE IF Unbound(h) THEN Same("none", INVALID_FILE_SIZE, <<Call("GetFileSize", << >>)>>)
         ELSE IF ~Valid(h) THEN Undefined("GetFileSize")
         ELSE Same("none", Len(inodes[Res(h).ino]), <<Call("GetFileSize", << >>)>>)

size_effect(h) ==
    IF backend = "posix"
    THEN IF ~Valid(h) THEN Undefined("ftell")
         ELSE LET s == Res(h)
                  e == fseek(s, Len(Pending(s)))
                  b == fseek(e.s, s.pos)
              IN  Out([inodes EXCEPT ![s.ino] = e.data], SetRes(h, b.s), file,
                      CE_ASSERT(e.ok /\ b.ok), ToU32(e.s.pos),
                      <<Call("ftell", << >>), Call("fseek", << >>),
                        Call("ftell", << >>), Call("fseek", << >>)>>)
    ELSE IF Unbound(h) THEN Same("none", INVALID_FILE_SIZE, <<Call("GetFileSize", << >>)>>)
         ELSE IF ~Valid(h) THEN Undefined("GetFileSize")
         ELSE Same("none", Len(inodes[Res(h).ino]), <<Call("GetFileSize", << >>)>>)

position_effect(h) ==
    IF backend = "posix"
    THEN IF ~Valid(h) THEN Undefined("ftell")
         ELSE Same("none", ToU32(Res(h).pos), <<Call("ftell", << >>)>>)
    ELSE IF Unbound(h)
         THEN Same("assert", INVALID_SET_FILE_POINTER, <<Call("SetFilePointer", << >>)>>)
         ELSE IF ~Valid(h) THEN Undefined("SetFilePointer")
         ELSE LET r == SetFilePointer(Res(h), Res(h).pos, 0)
              IN  Same(CE_ASSERT(r.ret /= INVALID_SET_FILE_POINTER), r.ret,
                       <<Call("SetFilePointer", << >>)>>)

end_of_file_effect(h) ==
    IF backend = "posix"
    THEN IF ~Valid(h) THEN Undefined("feof")
         ELSE Same("none", IF Res(h).eof THEN 1 ELSE 0, <<Call("feof", << >>)>>)
    ELSE Same("none", IF file[h]._eof THEN 1 ELSE 0, << >>)

\* seek, seek_to_end and skip differ in the base offset and the distance.
\* whence: "SET" | "END" | "CUR"; dist is the u32 argument (0 for seek_to_end).
move_effect(h, whence, dist) ==
    IF backend = "posix"
    THEN IF ~Valid(h) THEN Undefined("fseek")
         ELSE LET s == Res(h)
                  base == CASE whence = "SET" -> 0
                            [] whence = "END" -> Len(Pending(s))
                            [] OTHER -> s.pos
                  e == fseek(s, base + dist)
              IN  Out([inodes EXCEPT ![s.ino] = e.data], SetRes(h, e.s), file,
                      CE_ASSERT(e.ok), 0, <<Call("fseek", << >>)>>)
    ELSE IF Unbound(h)
         THEN Same("assert", 0, <<Call("SetFilePointer", << >>)>>)
         ELSE IF ~Valid(h) THEN Undefined("SetFilePointer")
         ELSE LET s == Res(h)
                  base == CASE whence = "SET" -> 0
                            [] whence = "END" -> Len(inodes[s.ino])
                            [] OTHER -> s.pos
                  r == SetFilePointer(s, base, ToLONG(dist))
              IN  Out(inodes, SetRes(h, r.s), file,
                      CE_ASSERT(r.ret /= INVALID_SET_FILE_POINTER), 0,
                      <<Call("SetFilePointer", << >>)>>)

seek_effect(h, position) == move_effect(h, "SET", position)
seek_to_end_effect(h) == move_effect(h, "END", 0)
skip_effect(h, bytes) == move_effect(h, "CUR", bytes)

\* A handle operation as an action: the effect, committed.
\* For the record: a seek that leaves the end of file for an offset before it
\* (rewound), and the read that follows such a seek on the same handle.
Rewinds(name, h, k) ==
    IF name = "seek" THEN Valid(h) /\ EofVal(h) /\ k < SizeVal(h)
    ELSE name = "read" /\ last.op = "seek" /\ last.h = h /\ last.rewound

Handle(name, h, k, e) ==
    /\ Running /\ Live(h)
    /\ Commit(disk, e.ino, e.nat, e.f, e.fat,
              [Op(name, h, << >>, "READ", k, e.ret, e.calls)
                 EXCEPT !.rewound = Rewinds(name, h, k)])

FileDisk_is_open(h) ==
    Handle("is_open", h, 0, Same("none", IF is_open(h) THEN 1 ELSE 0, << >>))
FileDisk_size(h) == Handle("size", h, 0, size_effect(h))
FileDisk_position(h) == Handle("position", h, 0, position_effect(h))
FileDisk_end_of_file(h) == Handle("end_of_file", h, 0, end_of_file_effect(h))
FileDisk_seek(h, position) == Handle("seek", h, position, seek_effect(h, position))
FileDisk_seek_to_end(h) == Handle("seek_to_end", h, 0, seek_to_end_effect(h))
FileDisk_skip(h, bytes) == Handle("skip", h, bytes, skip_effect(h, bytes))

\* ------------------------------------------------ FileDisk: read and write
\* The bytes a read of size bytes delivers from the cursor of s.
Avail(s, size) == Min(size, Max(0, Len(inodes[s.ino]) - s.pos))
read_data(h, size) ==
    IF Valid(h) /\ Res(h).mode = "READ"
    THEN SubSeq(inodes[Res(h).ino], Res(h).pos + 1, Res(h).pos + Avail(Res(h), size))
    ELSE << >>

\* stdio sets the end-of-file indicator when fread asks for bytes past the end.
fread_eof_at_end(s, got, size) == s.eof \/ s.pos + got >= Len(inodes[s.ino])
fread_eof(s, got, size) == s.eof \/ got < size

\* _eof = err && bytes_read == 0
ReadFile_eof_requested(err, bytes_read, size) == err /\ bytes_read = 0 /\ size > 0
ReadFile_eof_short(err, bytes_read, size) == err /\ bytes_read < size
ReadFile_eof(err, bytes_read, size) == err /\ bytes_read = 0

\* The most recent read of the object, for the record: did it return zero?
Rd(h, got) == [file EXCEPT ![h].rd = IF got = 0 THEN "zero" ELSE "some"]

read_effect(h, null, size) ==
    IF null THEN Same("assert", 0, << >>)
    ELSE IF backend = "posix"
    THEN IF ~Valid(h) THEN Undefined("fread")
         ELSE LET s == Res(h)
                  got == Avail(s, size)
              IN  IF size = 0 THEN Out(inodes, native, Rd(h, 0), "none", 0, <<Call("fread", << >>)>>)
                  ELSE IF s.mode /= "READ" THEN Same("assert", 0, <<Call("fread", << >>)>>)
                  ELSE Out(inodes,
                           SetRes(h, [s EXCEPT !.pos = @ + got, !.eof = fread_eof(s, got, size)]),
                           Rd(h, got), "none", got, <<Call("fread", << >>)>>)
    ELSE IF Unbound(h) THEN Same("assert", 0, <<Call("ReadFile", << >>)>>)
         ELSE IF ~Valid(h) THEN Undefined("ReadFile")
         ELSE LET s == Res(h)
                  got == Avail(s, size)
              IN  IF s.mode /= "READ" THEN Same("assert", 0, <<Call("ReadFile", << >>)>>)
                  ELSE Out(inodes, SetRes(h, [s EXCEPT !.pos = @ + got]),
                           [Rd(h, got) EXCEPT ![h]._eof = ReadFile_eof(TRUE, got, size)],
                           "none", got, <<Call("ReadFile", << >>)>>)

\* FileDisk::write that returns what WriteFile transferred without checking it.
write_effect_partial(h, null, data, size) ==
    IF null THEN Same("assert", 0, << >>)
    ELSE IF backend = "posix"
    THEN IF ~Valid(h) THEN Undefined("fwrite")
         ELSE LET s == Res(h)
              IN  IF size = 0 THEN Same("none", 0, <<Call("fwrite", << >>)>>)
                  ELSE IF s.mode /= "WRITE" THEN Same("assert", 0, <<Call("fwrite", << >>)>>)
                  ELSE LET w == [s EXCEPT !.pos = @ + size, !.buf = @ \o Take(data, size)]
                       IN  IF Len(w.buf) <= BufCap
                           THEN Out(inodes, SetRes(h, w), file, "none", size,
                                    <<Call("fwrite", << >>)>>)
                           ELSE Out([inodes EXCEPT ![s.ino] = Pending(w)],
                                    SetRes(h, [w EXCEPT !.buf = << >>]), file,
                                    CE_ASSERT(FlushOk(w)), size, <<Call("fwrite", << >>)>>)
    ELSE IF ~is_open(h) \/ (Valid(h) /\ Res(h).mode /= "WRITE")
         THEN Same(CE_ASSERT(size = 0), 0, <<Call("WriteFile", << >>)>>)
         ELSE IF ~Valid(h) THEN Undefined("WriteFile")
         ELSE LET s == Res(h)
                  n == Fit(s.pos, size)
              IN  Out([inodes EXCEPT ![s.ino] = Overwrite(@, s.pos, Take(data, n))],
                      SetRes(h, [s EXCEPT !.pos = @ + n]), file,
                      "none", n, <<Call("WriteFile", << >>)>>)

write_effect(h, null, data, size) ==
    IF null THEN Same("assert", 0, << >>)
    ELSE IF backend = "posix"
    THEN IF ~Valid(h) THEN Undefined("fwrite")
         ELSE LET s == Res(h)
              IN  IF size = 0 THEN Same("none", 0, <<Call("fwrite", << >>)>>)
                  ELSE IF s.mode /= "WRITE" THEN Same("assert", 0, <<Call("fwrite", << >>)>>)
                  ELSE LET w == [s EXCEPT !.pos = @ + size, !.buf = @ \o Take(data, size)]
                       IN  IF Len(w.buf) <= BufCap
                           THEN Out(inodes, SetRes(h, w), file, "none", size,
                                    <<Call("fwrite", << >>)>>)
                           ELSE Out([inodes EXCEPT ![s.ino] = Pending(w)],
                                    SetRes(h, [w EXCEPT !.buf = << >>]), file,
                                    CE_ASSERT(FlushOk(w)), size, <<Call("fwrite", << >>)>>)
    ELSE IF ~is_open(h) \/ (Valid(h) /\ Res(h).mode /= "WRITE")
         THEN Same(CE_ASSERT(size = 0), 0, <<Call("WriteFile", << >>)>>)
         ELSE IF ~Valid(h) THEN Undefined("WriteFile")
         ELSE LET s == Res(h)
                  n == Fit(s.pos, size)
              IN  Out([inodes EXCEPT ![s.ino] = Overwrite(@, s.pos, Take(data, n))],
                      SetRes(h, [s EXCEPT !.pos = @ + n]), file,
                      CE_ASSERT(size = n), n, <<Call("WriteFile", << >>)>>)

\* fflush(NULL) flushes every open stream.
RECURSIVE FlushAll(_, _, _)
FlushAll(rs, ino, nat) ==
    IF rs = {} THEN [ino |-> ino, nat |-> nat, ok |-> TRUE]
    ELSE LET r == CHOOSE x \in rs : \A y \in rs : x <= y
             rest == FlushAll(rs \ {r}, [ino EXCEPT ![nat[r].ino] = PendingIn(ino, nat[r])],
                              [nat EXCEPT ![r].buf = << >>])
         IN  [rest EXCEPT !.ok = @ /\ FlushOk(nat[r])]

flush_effect(h) ==
    IF backend = "posix"
    THEN IF Unbound(h)
         THEN LET a == FlushAll(Unreleased(native), inodes, native)
              IN  Out(a.ino, a.nat, file, CE_ASSERT(a.ok), 0, <<Call("fflush", << >>)>>)
         ELSE IF ~Valid(h) THEN Undefined("fflush")
         ELSE LET s == Res(h)
              IN  Out([inodes EXCEPT ![s.ino] = Pending(s)], SetRes(h, [s EXCEPT !.buf = << >>]),
                      file, CE_ASSERT(FlushOk(s)), 0, <<Call("fflush", << >>)>>)
    ELSE IF Unbound(h) THEN Same("assert", 0, <<Call("FlushFileBuffers", << >>)>>)
         ELSE IF ~Valid(h) THEN Undefined("FlushFileBuffers")
         ELSE Same(CE_ASSERT(Res(h).mode = "WRITE"), 0, <<Call("FlushFileBuffers", << >>)>>)

FileDisk_read(h, null, size) ==
    /\ Running /\ Live(h)
    /\ LET e == read_effect(h, null, size)
       IN  Commit(disk, e.ino, e.nat, e.f, e.fat,
                  [Op("read", h, << >>, "READ", size, e.ret, e.calls)
                     EXCEPT !.data = IF e.fat = "none" THEN read_data(h, size) ELSE << >>,
                            !.rewound = Rewinds("read", h, size)])
FileDisk_write(h, null, data, size) ==
    /\ Running /\ Live(h)
    /\ LET e == write_effect(h, null, data, size)
       IN  Commit(disk, e.ino, e.nat, e.f, e.fat,
                  [Op("write", h, << >>, "READ", size, e.ret, e.calls)
                     EXCEPT !.data = Take(data, e.ret)])
FileDisk_flush(h) == Handle("flush", h, 0, flush_effect(h))

\* --------------------------------------------------- the os:: primitives
os_exists(path) == disk[path].kind /= "none"
os_is_directory(path) == disk[path].kind = "dir"
os_is_file(path) == disk[path].kind = "file"
\* A file some unreleased HANDLE holds cannot be removed on Windows (share mode 0).
Held(path) ==
    disk[path].kind = "file" /\ \E r \in Unreleased(native) : native[r].ino = disk[path].ino

\* os::create_directory, os::delete_directory, os::create_file, os::delete_file:
\* the namespace after the call and whether the native call succeeded.
os_mutate(fn, path) ==
    LET node == disk[path]
    IN  CASE fn = "create_directory" ->
               IF node.kind = "none"
               THEN [ok |-> TRUE, d |-> [disk EXCEPT ![path] = [kind |-> "dir", ino |-> 0]],
                     ino |-> inodes]
               ELSE [ok |-> FALSE, d |-> disk, ino |-> inodes]
          [] fn = "delete_directory" ->
               IF node.kind = "dir"
               THEN [ok |-> TRUE, d |-> [disk EXCEPT ![path] = NoNode], ino |-> inodes]
               ELSE [ok |-> FALSE, d |-> disk, ino |-> inodes]
          [] fn = "create_file" ->
               IF node.kind = "none"
               THEN LET i == FreeIno(disk, native)
                    IN  [ok |-> TRUE, d |-> [disk EXCEPT ![path] = [kind |-> "file", ino |-> i]],
                         ino |-> [inodes EXCEPT ![i] = << >>]]
               ELSE [ok |-> FALSE, d |-> disk, ino |-> inodes]
          [] OTHER ->
               IF node.kind = "file" /\ ~(backend = "windows" /\ Held(path))
               THEN [ok |-> TRUE, d |-> [disk EXCEPT ![path] = NoNode], ino |-> inodes]
               ELSE [ok |-> FALSE, d |-> disk, ino |-> inodes]

\* ------------------------------------------------------- FilesystemDisk
\* FilesystemDisk::set_prefix
FilesystemDisk_set_prefix(prefix) ==
    /\ Running
    /\ _prefix' = prefix
    /\ last' = Op("set_prefix", 0, prefix, "READ", 0, 0, << >>)
    /\ UNCHANGED <<backend, fatal, disk, inodes, native, file, written, pc>>

\* CE_ENSURE(NULL != path): a null path aborts before anything is resolved.
NullPath(name) ==
    /\ Running
    /\ Commit(disk, inodes, native, file, "assert", Op(name, 0, << >>, "READ", 0, 0, << >>))

CanAllocate == \E h \in Handles : file[h].st = "free"
NewHandle == CHOOSE h \in Handles : file[h].st = "free" /\
                \A g \in Handles : file[g].st = "free" => h <= g

FilesystemDisk_open(path, mode) ==
    /\ Running
    /\ CanAllocate
    /\ CanAcquire
    /\ LET abs_path == get_absolute_path(backend, _prefix, path)
           h == NewHandle
           e == OpenEffect([file EXCEPT ![h] = Constructed], h, abs_path, mode, TRUE)
       IN  Commit(e.d, e.ino, e.nat, e.f, e.fat,
                  Op("Filesystem.open", h, path, mode, 0, h,
                     <<Call(IF backend = "posix" THEN "fopen" ELSE "CreateFile", abs_path)>>))

\* CE_DELETE(*_allocator, &file): ~FileDisk() runs close(), then the object is freed.
Destroy(f, nat, h) ==
    LET e == CloseEffect(f, nat, h)
    IN  [e EXCEPT !.f = [e.f EXCEPT ![h] = FreeSlot],
                  !.nat = [r \in NativeIds |->
                             IF e.nat[r].own = h THEN [e.nat[r] EXCEPT !.own = 0]
                             ELSE e.nat[r]]]

FilesystemDisk_close(h) ==
    /\ Running /\ Live(h)
    /\ LET e == Destroy(file, native, h)
       IN  Commit(disk, e.ino, e.nat, e.f, IF e.dbl THEN "ub" ELSE "none",
                  [Op("Filesystem.close", h, << >>, "READ", 0, 0,
                      IF e.released = 0 THEN << >>
                      ELSE <<Call(IF backend = "posix" THEN "fclose" ELSE "CloseHandle", << >>)>>)
                     EXCEPT !.released = e.released, !.dbl = e.dbl])

\* exists, is_directory, is_file, last_modified_time, list_files: resolve, delegate.
Query(name, path) ==
    LET abs_path == get_absolute_path(backend, _prefix, path)
    IN  CASE name = "exists" -> IF os_exists(abs_path) THEN 1 ELSE 0
          [] name = "is_directory" -> IF os_is_directory(abs_path) THEN 1 ELSE 0
          [] name = "is_file" -> IF os_is_file(abs_path) THEN 1 ELSE 0
          [] OTHER -> 0

FilesystemDisk_query(name, path) ==
    /\ Running
    /\ LET abs_path == get_absolute_path(backend, _prefix, path)
       IN  Commit(disk, inodes, native, file, "none",
                  Op(name, 0, path, "READ", 0, Query(name, path), <<Call(name, abs_path)>>))

\* FilesystemDisk::create_directory that creates without asking os::exists.
FilesystemDisk_create_directory_unchecked(path) ==
    /\ Running
    /\ LET abs_path == get_absolute_path(backend, _prefix, path)
           m == os_mutate("create_directory", abs_path)
       IN  Commit(m.d, m.ino, native, file, CE_ASSERT(m.ok),
                  Op("create_directory", 0, path, "READ", 0, 0,
                     <<Call("exists", abs_path), Call("create_directory", abs_path)>>))

FilesystemDisk_create_directory(path) ==
    /\ Running
    /\ LET abs_path == get_absolute_path(backend, _prefix, path)
           m == os_mutate("create_directory", abs_path)
       IN  IF ~os_exists(abs_path)
           THEN Commit(m.d, m.ino, native, file, CE_ASSERT(m.ok),
                       Op("create_directory", 0, path, "READ", 0, 0,
                          <<Call("exists", abs_path), Call("create_directory", abs_path)>>))
           ELSE Commit(disk, inodes, native, file, "none",
                       Op("create_directory", 0, path, "READ", 0, 0,
                          <<Call("exists", abs_path)>>))

\* create_directory as the two steps it is made of, for callers that share
\* the volume.  First step: resolve the path and ask os::exists; the caller
\* goes on to create only if the answer is no.
create_directory_check_always(a, path) ==
    /\ Running /\ pc[a].st = "idle"
    /\ LET abs_path == get_absolute_path(backend, _prefix, path)
       IN  /\ pc' = [pc EXCEPT ![a] = [st |-> "checked", path |-> abs_path]]
           /\ last' = Op("create_directory.exists", a, path, "READ", 0,
                         IF os_exists(abs_path) THEN 1 ELSE 0, <<Call("exists", abs_path)>>)
    /\ UNCHANGED <<backend, fatal, _prefix, disk, inodes, native, file, written>>

create_directory_check(a, path) ==
    /\ Running /\ pc[a].st = "idle"
    /\ LET abs_path == get_absolute_path(backend, _prefix, path)
       IN  /\ pc' = IF os_exists(abs_path) THEN pc
                    ELSE [pc EXCEPT ![a] = [st |-> "checked", path |-> abs_path]]
           /\ last' = Op("create_directory.exists", a, path, "READ", 0,
                         IF os_exists(abs_path) THEN 1 ELSE 0, <<Call("exists", abs_path)>>)
    /\ UNCHANGED <<backend, fatal, _prefix, disk, inodes, native, file, written>>

\* Second step: os::create_directory on the path resolved in the first; the
\* record keeps whether the path existed when the call was made.
create_directory_create(a) ==
    /\ Running /\ pc[a].st = "checked"
    /\ LET abs_path == pc[a].path
           m == os_mutate("create_directory", abs_path)
       IN  /\ disk' = m.d
           /\ fatal' = CE_ASSERT(m.ok)
           /\ last' = Op("create_directory.create", a, << >>, "READ", 0,
                         IF os_exists(abs_path) THEN 1 ELSE 0,
                         <<Call("create_directory", abs_path)>>)
    /\ pc' = [pc EXCEPT ![a] = Idle]
    /\ UNCHANGED <<backend, _prefix, inodes, native, file, written>>

\* delete_directory, create_file, delete_file: resolve, delegate unconditionally.
FilesystemDisk_mutate(name, path) ==
    /\ Running
    /\ LET abs_path == get_absolute_path(backend, _prefix, path)
           m == os_mutate(name, abs_path)
       IN  Commit(m.d, m.ino, native, file, CE_ASSERT(m.ok),
                  Op(name, 0, path, "READ", 0, 0, <<Call(name, abs_path)>>))

\* ------------------------------------------------------------ specification
Queries == {"exists", "is_directory", "is_file", "last_modified_time", "list_files"}
Mutations == {"delete_directory", "create_file", "delete_file"}
FacadeOps == Queries \cup Mutations \cup {"Filesystem.open", "create_directory"}

InitState(content) ==
    /\ backend \in Backends
    /\ fatal = "none"
    /\ _prefix = << >>
    /\ disk = [p \in DiskPaths(backend) |->
                 IF p = AbsPath(backend) THEN [kind |-> "file", ino |-> 1] ELSE NoNode]
    /\ inodes = [i \in InoIds |-> IF i = 1 THEN content ELSE << >>]
    /\ native = [r \in NativeIds |-> FreeNative]
    /\ file = [h \in Handles |-> FreeSlot]
    /\ last = NoOp
    /\ pc = [a \in Actors |-> Idle]

InitWith(content) == InitState(content) /\ written = Untracked

Init == InitWith(InitData)

\* The facade over the OS namespace: every path and prefix, every facade
\* operation, one handle at a time.
NoHandle == \A h \in Handles : ~Live(h)

NextFacade ==
    \/ \E prefix \in Prefixes : FilesystemDisk_set_prefix(prefix)
    \/ \E name \in FacadeOps : NullPath(name)
    \/ \E path \in PathInputs(backend), mode \in FileOpenMode :
          NoHandle /\ FilesystemDisk_open(path, mode)
    \/ \E h \in Handles : FilesystemDisk_close(h)
    \/ \E name \in Queries, path \in PathInputs(backend) : FilesystemDisk_query(name, path)
    \/ \E path \in PathInputs(backend) : FilesystemDisk_create_directory(path)
    \/ \E name \in Mutations, path \in PathInputs(backend) : FilesystemDisk_mutate(name, path)

SpecFacade == Init /\ [][NextFacade]_vars

\* The life cycle of handles: several handles, opened and closed in any order
\* through the facade and directly, on every path.
NextLife ==
    \/ \E path \in PathInputs(backend), mode \in FileOpenMode : FilesystemDisk_open(path, mode)
    \/ \E h \in Handles : FilesystemDisk_close(h)
    \/ \E h \in Handles, path \in DiskPaths(backend), mode \in FileOpenMode :
          FileDisk_open(h, path, mode)
    \/ \E h \in Handles : FileDisk_close(h)
    \/ \E h \in Handles : FileDisk_is_open(h)

SpecLife == Init /\ [][NextLife]_vars

\* Reading, writing and seeking on one handle at a time, on the file that
\* exists at the start; open is called on a closed handle only.
NextCursor ==
    \/ \E mode \in FileOpenMode : NoHandle /\ FilesystemDisk_open(AbsPath(backend), mode)
    \/ \E h \in Handles : FilesystemDisk_close(h)
    \/ \E h \in Handles, mode \in FileOpenMode :
          ~is_open(h) /\ FileDisk_open(h, AbsPath(backend), mode)
    \/ \E h \in Handles : FileDisk_close(h)
    \/ \E h \in Handles : FileDisk_is_open(h)
    \/ \E h \in Handles : FileDisk_size(h)
    \/ \E h \in Handles : FileDisk_position(h)
    \/ \E h \in Handles : FileDisk_end_of_file(h)
    \/ \E h \in Handles, position \in U32 : FileDisk_seek(h, position)
    \/ \E h \in Handles : FileDisk_seek_to_end(h)
    \/ \E h \in Handles, bytes \in U32 : FileDisk_skip(h, bytes)
    \/ \E h \in Handles, size \in U32 : FileDisk_read(h, FALSE, size)
    \/ \E h \in Handles : FileDisk_read(h, TRUE, 1)
    \/ \E h \in Handles, size \in 0..MaxWrite : FileDisk_write(h, FALSE, Blank(MaxWrite), size)
    \/ \E h \in Handles : FileDisk_write(h, TRUE, << >>, 1)
    \/ \E h \in Handles : FileDisk_flush(h)

InitCursor == InitWith(Blank(InitLen))

SpecCursor == InitCursor /\ [][NextCursor]_vars

\* A caller that creates a file through the facade, writes it and reads it
\* back: one handle at a time on one caller path, which is deleted in between.

NextTrip ==
    \/ /\ NoHandle
       /\ ~os_exists(get_absolute_path(backend, _prefix, RelPath))
       /\ FilesystemDisk_open(RelPath, "WRITE")
    \/ NoHandle /\ FilesystemDisk_open(RelPath, "READ")
    \/ \E h \in Handles : FilesystemDisk_close(h)
    \/ \E h \in Handles, size \in 0..MaxWrite :
          /\ Len(written.bytes) + size <= MaxTrip
          /\ FileDisk_write(h, FALSE, WriteBuffer, size)
    \/ \E h \in Handles, size \in U32 : FileDisk_read(h, FALSE, size)
    \/ \E h \in Handles : FileDisk_size(h)
    \/ FilesystemDisk_mutate("delete_file", RelPath)

InitTrip == InitState(InitData) /\ written = Tracked

SpecTrip == InitTrip /\ [][NextTrip]_vars

\* Several callers in create_directory at once, while directories and files
\* are created and removed.
NextRace ==
    \/ \E prefix \in Prefixes : FilesystemDisk_set_prefix(prefix)
    \/ \E a \in Actors, path \in PathInputs(backend) : create_directory_check(a, path)
    \/ \E a \in Actors : create_directory_create(a)
    \/ \E name \in Mutations, path \in PathInputs(backend) : FilesystemDisk_mutate(name, path)

SpecRace == Init /\ [][NextRace]_vars

\* Handles opened for reading on the one file, side by side, each moved and
\* read on its own; skip keeps the cursor within the unsigned range.
NextPair ==
    \/ FilesystemDisk_open(AbsPath(backend), "READ")
    \/ \E h \in Handles : FilesystemDisk_close(h)
    \/ \E h \in Handles, position \in U32 : FileDisk_seek(h, position)
    \/ \E h \in Handles : FileDisk_seek_to_end(h)
    \/ \E h \in Handles, bytes \in U32 :
          /\ Valid(h) /\ Res(h).pos + bytes <= U32Max
          /\ FileDisk_skip(h, bytes)
    \/ \E h \in Handles, size \in U32 : FileDisk_read(h, FALSE, size)

SpecPair == InitCursor /\ [][NextPair]_vars

TypeOK ==
    /\ backend \in Backends
    /\ fatal \in {"none", "assert", "ub"}
    /\ _prefix \in Prefixes
    /\ \A h \in Handles : file[h]._file \in {NoFile} \cup NativeIds

\* ------------------------------------------------------------------ claims
\* What the claims call the resolved path of p under the current prefix.
Resolved(p) ==
    IF is_absolute(backend, p) THEN p ELSE join(backend, _prefix, p)

\* C1: every facade operation hands the OS exactly the resolved path: the
\* caller's path verbatim when it is absolute, whatever the prefix, and
\* join(prefix, path) when it is relative.
C1_ResolvedPathPassed ==
    (last.op \in FacadeOps /\ last.path /= << >>)
        => /\ last.calls /= << >>
           /\ \A i \in 1..Len(last.calls) : last.calls[i].path = Resolved(last.path)

\* An absolute path went to the OS unchanged although a prefix is set.
C1_Witness ==
    /\ last.op = "Filesystem.open"
    /\ fatal = "none"
    /\ _prefix /= << >>
    /\ is_absolute(backend, last.path)
    /\ last.calls[1].path = last.path

\* The native resources a handle acquired and has not released.
Held_by(h) == {r \in NativeIds : native[r].open /\ native[r].own = h}

\* C2: a handle holds no unreleased native resource when is_open() is false
\* and exactly one when it is true, after any sequence of open and close.
C2_HandleResourceInvariant ==
    Running => \A h \in Handles :
        Live(h) => Cardinality(Held_by(h)) = (IF is_open(h) THEN 1 ELSE 0)

\* C3: close() in any state releases the resource the handle is bound to, and
\* only that, once; it leaves the handle closed, never aborts, and changes
\* nothing when the handle is closed already.
C3_IdempotentClose ==
    [][\A h \in Handles :
         (Running /\ Live(h) /\ last'.op = "close" /\ last'.h = h)
            => /\ fatal' = "none"
               /\ ~is_open(h)'
               /\ ~last'.dbl
               /\ last'.released = (IF is_open(h) THEN 1 ELSE 0)
               /\ ~is_open(h) => UNCHANGED <<backend, fatal, _prefix, disk, inodes, native, file>>
      ]_vars

\* close() was called on a handle that was closed already.
C3_Witness ==
    /\ last.op = "close"
    /\ last.released = 0
    /\ fatal = "none"
    /\ Live(last.h)

\* C4: once a handle went through FilesystemDisk::close, every native
\* resource it acquired through FilesystemDisk::open is released, and none
\* was released twice.
C4_FacadeCloseReleases ==
    Running =>
        /\ \A r \in NativeIds : (native[r].open /\ native[r].facade) => native[r].own /= 0
        /\ last.op = "Filesystem.close" => ~last.dbl

\* The most recent operation was a read of handle h, still open for reading.
JustRead(h) ==
    /\ Running /\ last.op = "read" /\ last.h = h
    /\ Live(h) /\ Valid(h) /\ Res(h).mode = "READ"

\* C5 (as stated): on both backends, whenever read(buffer, n) returns 0, for
\* any n including 0 and any cursor position, end_of_file() is true right
\* afterwards.
C5_ZeroReadSetsEof ==
    \A h \in Handles : (JustRead(h) /\ last.ret = 0) => EofVal(h)

\* C5 (amended): a read that returns 0 leaves end_of_file() true for every
\* requested length on the raw-handle backend, and for every requested length
\* greater than zero on the buffered-stream backend.
C5_ZeroReadSetsEof_Amended ==
    \A h \in Handles :
        (JustRead(h) /\ last.ret = 0 /\ (backend = "posix" => last.k > 0)) => EofVal(h)

\* A read returned 0 before the end of the file and the flag is set.
C5_Witness ==
    \E h \in Handles :
        /\ JustRead(h) /\ last.ret = 0
        /\ PosVal(h) < SizeVal(h)
        /\ EofVal(h)

\* C6 (as stated): on both backends, with end_of_file() true, seek(k) to
\* before the end followed by a read that returns at least one byte leaves
\* end_of_file() false, also when the read is short.
C6_SeekReadClearsEof ==
    \A h \in Handles :
        (JustRead(h) /\ last.rewound /\ last.ret > 0) => ~EofVal(h)

\* C6 (amended): after such a seek and non-empty read end_of_file() is false
\* on the raw-handle backend; on the buffered-stream backend it is false when
\* the read delivered every byte it asked for and true when the read was short.
C6_SeekReadClearsEof_Amended ==
    \A h \in Handles :
        (JustRead(h) /\ last.rewound /\ last.ret > 0)
            => (EofVal(h) <=> (backend = "posix" /\ last.ret < last.k))

\* A short, non-empty read after seeking back from the end left the flag clear.
C6_Witness ==
    \E h \in Handles :
        /\ JustRead(h) /\ last.rewound
        /\ last.ret > 0 /\ last.ret < last.k
        /\ ~EofVal(h)

\* The operations of a handle other than read.
NonReadOps == {"seek", "seek_to_end", "skip", "write", "flush", "size", "position"}

\* C7: on the raw-handle backend the flag of a handle is true exactly when the
\* handle's most recent read succeeded and returned zero bytes (false when it
\* never read), and seek, seek_to_end, skip, write, flush, size and position
\* leave it as it was.
C7_RawHandleEofFlag ==
    [][backend = "windows" =>
         \A h \in Handles :
            /\ (Running' /\ Live(h)') => (file'[h]._eof <=> file'[h].rd = "zero")
            /\ (Running' /\ Live(h) /\ last'.op \in NonReadOps /\ last'.h = h)
                  => file'[h]._eof = file[h]._eof
      ]_vars

\* A seek back to before the end left the raw-handle flag set.
C7_Witness ==
    \E h \in Handles :
        /\ backend = "windows" /\ Running
        /\ last.op = "seek" /\ last.h = h
        /\ Live(h) /\ Valid(h)
        /\ PosVal(h) < SizeVal(h)
        /\ file[h]._eof

\* A read of n > 0 bytes just returned exactly the bytes that remained.
ReadToEnd(h) ==
    /\ JustRead(h)
    /\ last.k > 0 /\ last.ret = last.k
    /\ PosVal(h) = SizeVal(h)

\* C8 (as stated): after a read of n = s - p > 0 bytes that returns exactly the
\* remaining bytes, end_of_file() is true with no further read.
C8_EofAfterExactRead ==
    \A h \in Handles : ReadToEnd(h) => EofVal(h)

\* C8 (amended): a read of n = s - p > 0 bytes that returns exactly the
\* remaining bytes does not set end_of_file(): the flag is false afterwards,
\* unless the buffered-stream indicator was set already before that read; on
\* an open handle the flag turns true only in a further read.
C8_EofAfterExactRead_Amended ==
    [][\A h \in Handles :
         /\ (Valid(h) /\ ReadToEnd(h)')
               => (EofVal(h)' <=> (backend = "posix" /\ EofVal(h)))
         /\ (/\ Valid(h) /\ ~EofVal(h)
             /\ Running' /\ Live(h)' /\ Valid(h)'
             /\ file'[h]._file = file[h]._file
             /\ EofVal(h)')
               => (last'.op = "read" /\ last'.h = h /\ ~ReadToEnd(h)')
      ]_vars

\* A read consumed the last bytes and the flag is still clear.
C8_Witness ==
    \E h \in Handles : ReadToEnd(h) /\ ~EofVal(h)

\* The handle can be repositioned: it is open and, on the buffered-stream
\* backend, what it has buffered fits on the volume.
Seekable(h) ==
    /\ Running /\ Live(h) /\ Valid(h)
    /\ backend = "posix" => FlushOk(Res(h))

\* C9: after seek(k) with 0 <= k <= size(), position() returns k, and after
\* seek_to_end() position() returns what size() returns, from every cursor
\* position and end-of-file state, on both backends.
C9_AbsolutePositioning ==
    [][\A h \in Handles :
         /\ (Seekable(h) /\ last'.op = "seek" /\ last'.h = h /\ last'.k <= SizeVal(h))
               => /\ fatal' = "none"
                  /\ position_effect(h)'.fat = "none"
                  /\ position_effect(h)'.ret = last'.k
         /\ (Seekable(h) /\ last'.op = "seek_to_end" /\ last'.h = h)
               => /\ fatal' = "none"
                  /\ position_effect(h)'.fat = "none"
                  /\ position_effect(h)'.ret = size_effect(h)'.ret
      ]_vars

\* C10: skip(k) from position p leaves the cursor at p + k for every unsigned
\* k, k >= 2^31 included, whenever p + k is an unsigned 32-bit offset, and
\* never moves the cursor backwards.
C10_RelativePositioning ==
    [][\A h \in Handles :
         (Seekable(h) /\ last'.op = "skip" /\ last'.h = h)
            => /\ (PosVal(h) + last'.k <= U32Max)
                    => (fatal' = "none" /\ PosVal(h)' = PosVal(h) + last'.k)
               /\ fatal' = "none" => PosVal(h)' >= PosVal(h)
      ]_vars

\* C11: on an open handle in either mode, on either backend, size() returns
\* the byte length of the file, bytes written through the handle and not yet
\* flushed included, and position() returns after size() what it returned
\* before; size() aborts only when stdio cannot flush what is buffered.
C11_SizePreservesCursor ==
    [][\A h \in Handles :
         (Running /\ Live(h) /\ Valid(h) /\ last'.op = "size" /\ last'.h = h)
            => /\ fatal' = "none" <=> (backend = "posix" => FlushOk(Res(h)))
               /\ fatal' = "none" =>
                    /\ last'.ret = Len(inodes'[Res(h).ino])
                    /\ last'.ret >= Len(inodes[Res(h).ino])
                    /\ Res(h).buf /= << >> => last'.ret >= Res(h).pos
                    /\ position_effect(h)'.fat = "none"
                    /\ position_effect(h)'.ret = position_effect(h).ret
      ]_vars

\* size() on a WRITE-mode handle counted bytes the file did not hold at open
\* and left the cursor away from the end.
C11_Witness ==
    \E h \in Handles :
        /\ Running /\ last.op = "size" /\ last.h = h
        /\ Live(h) /\ Valid(h) /\ Res(h).mode = "WRITE"
        /\ last.ret > InitLen
        /\ PosVal(h) < last.ret

\* The caller's history is that of a round trip: the path did not exist when
\* it was opened for writing, the volume had room for the bytes written, and
\* the writing handle is closed.
RoundTrip ==
    /\ Running /\ written.on /\ written.fresh /\ written.h = 0
    /\ Len(written.bytes) <= DiskCap

\* C12: a path that did not exist is opened in WRITE mode through the facade,
\* n bytes (that the volume has room for) are written, the handle is closed,
\* the path is opened again in READ mode: reading n bytes returns n and the
\* bytes written, in order, and size() is n after the write, before the close
\* and after the reopening.
C12_WriteReadRoundTrip ==
    /\ (Running /\ written.on /\ written.fresh /\ written.h /= 0
             /\ last.op = "size" /\ last.h = written.h)
          => last.ret = Len(written.bytes)
    /\ (RoundTrip /\ written.reader /= 0 /\ last.op = "size" /\ last.h = written.reader)
          => last.ret = Len(written.bytes)
    /\ (RoundTrip /\ written.reader /= 0 /\ last.op = "read" /\ last.h = written.reader
             /\ last.k = Len(written.bytes)
             /\ PosVal(written.reader) = last.ret)
          => (last.ret = last.k /\ last.data = written.bytes)

\* The bytes written, with two different values among them, were read back.
C12_Witness ==
    /\ RoundTrip /\ written.reader /= 0
    /\ last.op = "read" /\ last.h = written.reader
    /\ last.k = Len(written.bytes)
    /\ Len(written.bytes) > MaxWrite
    /\ written.bytes[1] /= written.bytes[2]
    /\ last.data = written.bytes

\* C13: on both backends open(path, READ) on a path that does not exist
\* creates nothing (the path still does not exist afterwards) and ends in the
\* fatal open-failure state, not with an open handle.
C13_ReadNeverCreates ==
    [][(/\ Running
        /\ last'.op \in {"open", "Filesystem.open"}
        /\ last'.mode = "READ"
        /\ disk[last'.calls[1].path].kind = "none")
          => /\ disk' = disk
             /\ fatal' = "assert"
             /\ \A h \in Handles : ~is_open(h)'
      ]_vars

\* The operations of a handle that need it open.
OpenOnlyOps ==
    {"size", "position", "seek", "seek_to_end", "skip", "read", "write", "flush",
     "end_of_file"}

\* C14: size, position, seek, seek_to_end, skip, read, write, flush and
\* end_of_file on a handle whose is_open() is false are caught by an
\* assertion: the fatal state is reached and no native call was issued.
C14_ClosedHandleAsserts ==
    [][\A h \in Handles :
         (/\ Running /\ Live(h) /\ ~is_open(h)
          /\ last'.op \in OpenOnlyOps /\ last'.h = h
          /\ last' /= last)
            => (fatal' = "assert" /\ last'.calls = << >>)
      ]_vars

\* C15: on both backends a write(buffer, n) that returns normally returns n;
\* a native write that transfers fewer than n bytes ends in the fatal state
\* and is never reported as a return value smaller than n.
C15_NoPartialWrites ==
    last.op = "write" =>
        /\ Running => last.ret = last.k
        /\ last.ret < last.k => ~Running

\* WriteFile transferred some of the bytes requested, not all, and the
\* process aborted.
C15_Witness ==
    /\ last.op = "write"
    /\ last.calls /= << >>
    /\ last.ret > 0 /\ last.ret < last.k
    /\ fatal = "assert"

\* C16: create_directory(path) calls os::create_directory, on the resolved
\* path, only when os::exists(resolved path) is false; when the resolved path
\* exists, as a file or as a directory, it issues no mutation and the state
\* of the filesystem is unchanged.
C16_CreateDirectoryIdempotent ==
    [][(Running /\ last'.op = "create_directory" /\ last'.path /= << >>)
         => IF os_exists(Resolved(last'.path))
            THEN /\ last'.calls = <<Call("exists", Resolved(last'.path))>>
                 /\ UNCHANGED <<backend, fatal, _prefix, disk, inodes, native, file>>
            ELSE /\ last'.calls = <<Call("exists", Resolved(last'.path)),
                                    Call("create_directory", Resolved(last'.path))>>
                 /\ fatal' = "none"
                 /\ disk' = [disk EXCEPT ![Resolved(last'.path)] = [kind |-> "dir", ino |-> 0]]
      ]_vars

\* create_directory was called on a path that names a file and only asked
\* whether it exists.
C16_Witness ==
    /\ Running
    /\ last.op = "create_directory" /\ last.path /= << >>
    /\ Len(last.calls) = 1
    /\ disk[last.calls[1].path].kind = "file"

\* C17: the existence check and the creation are separate steps. A caller
\* whose check is followed directly by its creation (as with a single caller)
\* never invokes os::create_directory on a path that exists; when another
\* caller acts in between, that state is reachable.
C17_CheckThenCreate ==
    [][\A a \in Actors :
         (/\ Running /\ pc[a].st = "checked"
          /\ last.op = "create_directory.exists" /\ last.h = a
          /\ last'.op = "create_directory.create" /\ last'.h = a)
            => (~os_exists(pc[a].path) /\ last'.ret = 0 /\ fatal' = "none")
      ]_vars

\* os::create_directory was invoked on a path that already existed.
C17_Witness ==
    /\ last.op = "create_directory.create"
    /\ last.ret = 1
    /\ os_exists(last.calls[1].path)

\* The operations that move a handle's cursor or read through it.
CursorOps == {"seek", "seek_to_end", "skip", "read"}

\* C18: on both backends a second handle can be opened through the facade on
\* a path while a first handle is open on it, and seek, seek_to_end, skip and
\* read on one handle leave what position() and end_of_file() return on the
\* other unchanged.
C18_IndependentHandles ==
    [][/\ \A g \in Handles :
            (/\ Running /\ Live(g) /\ Valid(g)
             /\ last'.op = "Filesystem.open"
             /\ disk[last'.calls[1].path].kind = "file"
             /\ Res(g).ino = disk[last'.calls[1].path].ino)
               => /\ fatal' = "none"
                  /\ \E n \in Handles \ {g} :
                        /\ last'.h = n
                        /\ Valid(n)' /\ Valid(g)'
                        /\ Res(n)'.ino = Res(g)'.ino
       /\ \A h, g \in Handles :
            (/\ h /= g
             /\ Running /\ Live(h) /\ Valid(h) /\ Live(g) /\ Valid(g)
             /\ last'.op \in CursorOps /\ last'.h = h
             /\ Running')
               => /\ position_effect(g)'.ret = position_effect(g).ret
                  /\ end_of_file_effect(g)'.ret = end_of_file_effect(g).ret
      ]_vars

\* C19: on an open handle, on either backend, size(), position() and
\* is_open() leave what end_of_file() returns unchanged.
C19_QueriesKeepEof ==
    [][\A h \in Handles :
         (/\ Running /\ Live(h) /\ Valid(h)
          /\ last'.op \in {"size", "position", "is_open"} /\ last'.h = h
          /\ Running')
            => end_of_file_effect(h)'.ret = end_of_file_effect(h).ret
      ]_vars

\* What a backend-independent file cursor does: the offset after the
\* operation op with argument n from offset p in a file of len bytes, and
\* the number of bytes a read delivers.
RefGot(p, n, len) == IF p >= len THEN 0 ELSE IF n <= len - p THEN n ELSE len - p
RefPos(op, p, n, len) ==
    CASE op = "seek" -> n
      [] op = "seek_to_end" -> len
      [] op = "skip" -> p + n
      [] OTHER -> p + RefGot(p, n, len)

\* C20: for a READ-mode handle, every seek, seek_to_end, skip and read (into
\* a buffer that is not null) with an offset or length below 2^31 has, on
\* either backend, the one result the file's content and the cursor
\* determine: the same read return value and bytes, and the same position()
\* and size() afterwards.
C20_BackendEquivalence ==
    [][\A h \in Handles :
         (/\ Running /\ Live(h) /\ Valid(h) /\ Res(h).mode = "READ"
          /\ last'.op \in CursorOps /\ last'.h = h
          /\ last'.calls /= << >>
          /\ last'.k <= LONG_MAX32)
            => /\ fatal' = "none"
               /\ Res(h)'.pos = RefPos(last'.op, Res(h).pos, last'.k, Len(inodes[Res(h).ino]))
               /\ last'.op = "read" =>
                    /\ last'.ret = RefGot(Res(h).pos, last'.k, Len(inodes[Res(h).ino]))
                    /\ last'.data = SubSeq(inodes[Res(h).ino], Res(h).pos + 1,
                                           Res(h).pos + last'.ret)
               /\ position_effect(h)'.fat = "none"
               /\ position_effect(h)'.ret = ToU32(Res(h)'.pos)
               /\ size_effect(h)'.fat = "none"
               /\ size_effect(h)'.ret = Len(inodes[Res(h).ino])
      ]_vars

====
